---- MODULE Spec2Model ----
(***************************************************************************)
(* A model of the feedback digest worker (src/src/index.js, lines 1-505):  *)
(* the DigestWorkflow (four durable steps), the request-triggered pipeline *)
(* GET /run-digest?execute=true, the two D1 tables feedback and            *)
(* daily_digests, and the digest builder (JSON extraction, fallback,       *)
(* sentiment normalisation, metadata).                                     *)
(*                                                                         *)
(* Optional JSON values are sequences of length at most one: <<>> is an    *)
(* absent property (undefined), <<v>> a present one.                       *)
(***************************************************************************)
EXTENDS Integers, Sequences, FiniteSets, TLC

\* ------------------------------------------------------------------ bounds
MaxFeedback == 3    \* rows the feedback table may hold
FetchLimit  == 2    \* the LIMIT of the feedback SELECT (50 in the source), scaled
MaxClock    == 1    \* ticks of the storage clock
TicksPerDay == 1    \* clock ticks per calendar day
MaxRuns     == 2    \* workflow instances
MaxFaults   == 1    \* step attempts that fail, over all instances
MaxRaw      == 4    \* largest raw sentiment component the model answers with
MaxLen      == 4    \* tokens of an inference response text
MaxReads    == 2    \* /latest-digest requests
MaxPages    == 1    \* /run-digest requests without ?execute=true

\* ----------------------------------------------------------- option values
None      == <<>>
Some(v)   == <<v>>
Has(o)    == o # <<>>
Val(o)    == o[1]

RangeOf(s) == {s[k] : k \in 1..Len(s)}
Min(a, b)  == IF a <= b THEN a ELSE b

\* ------------------------------------------------------------- the schema
NULL      == "NULL"                     \* an SQL NULL / absent source
Impacts   == {"High", "Medium", "Low"}  \* prompt, index.js:135
Trends    == {"up", "down", "stable"}   \* prompt, index.js:144

\* A source is falsy for filter(Boolean) and for `f.source || 'unknown'`.
Falsy(s) == s \in {NULL, ""}

\* feedback.map(f => f.source).filter(Boolean), then [...new Set(...)]:
\* the distinct truthy sources in first-seen order.
RECURSIVE DistinctFrom(_, _)
DistinctFrom(rows, seen) ==
    IF rows = <<>> THEN <<>>
    ELSE LET s == Head(rows).source IN
         IF Falsy(s) \/ s \in seen
         THEN DistinctFrom(Tail(rows), seen)
         ELSE <<s>> \o DistinctFrom(Tail(rows), seen \cup {s})

\* Mutant: the truthy sources without new Set(...).
RECURSIVE SourcesNoDedupe(_)
SourcesNoDedupe(rows) ==
    IF rows = <<>> THEN <<>>
    ELSE IF Falsy(Head(rows).source) THEN SourcesNoDedupe(Tail(rows))
         ELSE <<Head(rows).source>> \o SourcesNoDedupe(Tail(rows))

SourcesOf(rows) == DistinctFrom(rows, {})

\* new Date().toLocaleDateString('en-US', {month:'short', day:'numeric'}):
\* the calendar day of the clock.
DayOf(t) == t \div TicksPerDay

\* { date: today, sources, feedback_count: feedback.length }
Metadata(today, sources, rows) ==
    [date |-> today, sources |-> sources, feedback_count |-> Len(rows)]

\* ------------------------------------------------- the inference response
\* A response text is a sequence of tokens: "{" and "}" are braces, "m" is a
\* well-formed comma-separated member list, "w" is any other text.  The
\* members a "m" token stands for are the response's obj.
Tokens == {"{", "}", "m", "w"}

\* Mutant: the lazy /\{[\s\S]*?\}/, from the first "{" to the next "}".
MatchLazy(text) ==
    LET opens  == {k \in 1..Len(text) : text[k] = "{"}
    IN  IF opens = {} THEN None
        ELSE LET first  == CHOOSE k \in opens : \A j \in opens : k <= j
                 closes == {k \in first..Len(text) : text[k] = "}"}
             IN  IF closes = {} THEN None
                 ELSE Some(SubSeq(text, first,
                                  CHOOSE k \in closes : \A j \in closes : k <= j))

\* aiResponse.response.match(/\{[\s\S]*\}/): the span from the first "{"
\* to the last "}" (greedy), None when no "{" is followed by a "}".
Match(text) ==
    LET opens  == {k \in 1..Len(text) : text[k] = "{"}
        closes == {k \in 1..Len(text) : text[k] = "}"}
    IN  IF opens = {} \/ closes = {} THEN None
        ELSE LET first == CHOOSE k \in opens  : \A j \in opens  : k <= j
                 last  == CHOOSE k \in closes : \A j \in closes : k >= j
             IN  IF first < last THEN Some(SubSeq(text, first, last)) ELSE None

\* JSON.parse accepts the span when it is one object: "{}" or "{" members "}".
ValidJSON(span) == span \in {<<"{", "}">>, <<"{", "m", "}">>}

NoActions == [docs_ux |-> None, validation |-> <<>>, tracking |-> <<>>]

EmptyObject ==
    [top_themes      |-> None,
     friction_points |-> None,
     sentiment       |-> None,
     feature_signals |-> None,
     pm_actions      |-> None,
     raw_response    |-> None,
     metadata        |-> None]

\* JSON.parse(jsonMatch[0]) of a valid span: the object the members denote.
JSONParse(span, obj) == IF span = <<"{", "}">> THEN EmptyObject ELSE obj

\* Mutant: Math.floor in place of Math.round.
RoundPercentFloor(x, total) == (100 * x) \div total

\* Math.round(x / total * 100) for total > 0: round half towards +infinity.
RoundPercent(x, total) == (200 * x + total) \div (2 * total)

\* parsed.sentiment.frustrated + .neutral + .positive: NaN (None) when a
\* component is not a number.
RawTotal(s) ==
    IF Has(s.frustrated) /\ Has(s.neutral) /\ Has(s.positive)
    THEN Some(Val(s.frustrated) + Val(s.neutral) + Val(s.positive))
    ELSE None

\* Mutant: the positive component is left as the model gave it.
NormalizeSentimentTwo(parsed) ==
    IF ~Has(parsed.sentiment) THEN parsed
    ELSE LET s     == Val(parsed.sentiment)
             total == RawTotal(s)
         IN  IF Has(total) /\ Val(total) > 0
             THEN [parsed EXCEPT !.sentiment = Some(
                     [s EXCEPT !.frustrated = Some(RoundPercent(Val(s.frustrated), Val(total))),
                               !.neutral    = Some(RoundPercent(Val(s.neutral), Val(total)))])]
             ELSE parsed

\* Mutant: the positive component is what the other two leave of 100.
NormalizeSentimentToHundred(parsed) ==
    IF ~Has(parsed.sentiment) THEN parsed
    ELSE LET s     == Val(parsed.sentiment)
             total == RawTotal(s)
         IN  IF Has(total) /\ Val(total) > 0
             THEN LET f == RoundPercent(Val(s.frustrated), Val(total))
                      n == RoundPercent(Val(s.neutral), Val(total))
                  IN  [parsed EXCEPT !.sentiment = Some(
                         [s EXCEPT !.frustrated = Some(f),
                                   !.neutral    = Some(n),
                                   !.positive   = Some(100 - f - n)])]
             ELSE parsed

\* index.js:165-172: if (parsed.sentiment) { total = ...; if (total > 0) {...} }
NormalizeSentiment(parsed) ==
    IF ~Has(parsed.sentiment) THEN parsed
    ELSE LET s     == Val(parsed.sentiment)
             total == RawTotal(s)
         IN  IF Has(total) /\ Val(total) > 0
             THEN [parsed EXCEPT !.sentiment = Some(
                     [s EXCEPT !.frustrated = Some(RoundPercent(Val(s.frustrated), Val(total))),
                               !.neutral    = Some(RoundPercent(Val(s.neutral), Val(total))),
                               !.positive   = Some(RoundPercent(Val(s.positive), Val(total)))])]
             ELSE parsed

\* index.js:176-183 and 287-294 without raw_response and metadata.
FallbackFields ==
    [top_themes      |-> Some(<<[theme |-> "Unable to parse", mentions |-> 0,
                                 impact |-> "Unknown", confidence |-> "Low"]>>),
     friction_points |-> Some(<<>>),
     sentiment       |-> Some([frustrated |-> Some(0), neutral |-> Some(100),
                               positive |-> Some(0), trend |-> "stable"]),
     feature_signals |-> Some(<<>>),
     pm_actions      |-> Some([docs_ux |-> Some(<<"Review AI response manually">>),
                               validation |-> <<>>, tracking |-> <<>>]),
     raw_response    |-> None,
     metadata        |-> None]

\* The try block throws when match() gives null or JSON.parse rejects the span.
ParseThrows(resp) ==
    LET m == Match(resp.text) IN IF Has(m) THEN ~ValidJSON(Val(m)) ELSE TRUE

\* Mutant: the catch block returns an object without the default properties.
WorkflowDigestNoFallback(resp, rows, today) ==
    LET meta == Metadata(today, SourcesOf(rows), rows) IN
    IF ParseThrows(resp)
    THEN [EmptyObject EXCEPT !.metadata = Some(meta)]
    ELSE LET parsed == JSONParse(Val(Match(resp.text)), resp.obj) IN
         [NormalizeSentiment(parsed) EXCEPT !.metadata = Some(meta)]

\* index.js:161-184, the body of the analyze-with-ai step after the AI call.
WorkflowDigest(resp, rows, today) ==
    LET meta == Metadata(today, SourcesOf(rows), rows) IN
    IF ParseThrows(resp)
    THEN [FallbackFields EXCEPT !.metadata = Some(meta)]
    ELSE LET parsed == JSONParse(Val(Match(resp.text)), resp.obj) IN
         [NormalizeSentiment(parsed) EXCEPT !.metadata = Some(meta)]

\* Mutant: digest.metadata = digest.metadata || { ... }.
InlineDigestKeepsMetadata(resp, rows, today) ==
    LET meta == Metadata(today, SourcesOf(rows), rows) IN
    IF ParseThrows(resp)
    THEN [FallbackFields EXCEPT !.raw_response = Some(resp.text),
                                !.metadata = Some(meta)]
    ELSE LET parsed == JSONParse(Val(Match(resp.text)), resp.obj) IN
         IF Has(parsed.metadata) THEN NormalizeSentiment(parsed)
         ELSE [NormalizeSentiment(parsed) EXCEPT !.metadata = Some(meta)]

\* index.js:274-297, the same in the /run-digest?execute=true handler.
InlineDigest(resp, rows, today) ==
    LET meta == Metadata(today, SourcesOf(rows), rows) IN
    IF ParseThrows(resp)
    THEN [FallbackFields EXCEPT !.raw_response = Some(resp.text),
                                !.metadata = Some(meta)]
    ELSE LET parsed == JSONParse(Val(Match(resp.text)), resp.obj) IN
         [NormalizeSentiment(parsed) EXCEPT !.metadata = Some(meta)]

\* JSON.stringify(digest): the members of the object in property order, a
\* property that is undefined left out.
DigestKeys == <<"top_themes", "friction_points", "sentiment", "feature_signals",
                "pm_actions", "raw_response", "metadata">>

RECURSIVE Members(_, _)
Members(d, k) ==
    IF k > Len(DigestKeys) THEN <<>>
    ELSE LET key == DigestKeys[k] IN
         IF Has(d[key]) THEN <<[key |-> key, value |-> Val(d[key])]>> \o Members(d, k + 1)
         ELSE Members(d, k + 1)

Stringify(d) == Members(d, 1)

\* The value of a property of a serialized digest, None when it has none.
Property(summary, key) ==
    LET at == {k \in 1..Len(summary) : summary[k].key = key} IN
    IF at = {} THEN None ELSE Some(summary[CHOOSE k \in at : TRUE].value)

\* index.js:200-203: building the Slack blocks dereferences top_themes,
\* sentiment, feature_signals and pm_actions.docs_ux; an absent one throws.
NotifyThrows(d) ==
    ~(/\ Has(d.top_themes)
      /\ Has(d.sentiment)
      /\ Has(d.feature_signals)
      /\ Has(d.pm_actions)
      /\ Has(Val(d.pm_actions).docs_ux))

\* index.js:194-205, what the payload shows.
SlackPayload(d, today, sources, rows) ==
    [date      |-> today,
     sources   |-> sources,
     volume    |-> Len(rows),
     themes    |-> Val(d.top_themes),
     sentiment |-> Val(d.sentiment),
     signals   |-> Val(d.feature_signals),
     actions   |-> Val(Val(d.pm_actions).docs_ux)]

\* ------------------------------------------------------------------ state
VARIABLES
    now,            \* the storage clock, datetime('now')
    feedback,       \* table feedback: rows [id, source, created_at]
    daily_digests,  \* table daily_digests: rows [id, summary, feedback_count, created_at]
    wf,             \* workflow instances: checkpointed step results and position
    req,            \* the /run-digest?execute=true request being handled
    faults,         \* step attempts that failed so far
    runLog,         \* history, per workflow instance: calls made, response received
    provenance,     \* history, per daily_digests row: who inserted it, from which window
    latest,         \* history: the /latest-digest responses, with the table size at the time
    tieOrder,       \* the order in which the engine returns rows of equal created_at
    loading         \* loading pages served for GET /run-digest without ?execute=true

vars == <<now, feedback, daily_digests, wf, req, faults, runLog, provenance, latest, tieOrder, loading>>

Runs == 1..MaxRuns

\* The values the source column takes in the model.
SourceValues == {"github", "discord", NULL, ""}

\* The members the sample responses carry: the structure the prompt asks for.
SampleObject ==
    [top_themes      |-> Some(<<[theme |-> "Performance", mentions |-> 2,
                                 impact |-> "High", confidence |-> "Medium"]>>),
     friction_points |-> Some(<<[point |-> "timeouts", count |-> 1]>>),
     sentiment       |-> Some([frustrated |-> Some(1), neutral |-> Some(1),
                               positive |-> Some(2), trend |-> "up"]),
     feature_signals |-> Some(<<"full-text search">>),
     pm_actions      |-> Some([docs_ux |-> Some(<<"improve docs">>),
                               validation |-> <<>>, tracking |-> <<>>]),
     raw_response    |-> None,
     metadata        |-> None]

\* What env.AI.run answers in Spec: a well-formed object inside prose, prose
\* without JSON, an unterminated object, and an empty object.
SampleResponses ==
    {[text |-> <<"w", "{", "m", "}">>, obj |-> SampleObject],
     [text |-> <<"w">>,                obj |-> SampleObject],
     [text |-> <<"{", "m">>,           obj |-> SampleObject],
     [text |-> <<"{", "}">>,           obj |-> SampleObject]}

\* ORDER BY created_at leaves the order of rows of equal created_at to the
\* engine: ascending or descending rowid, the same for every query.
TieOrders == {"rowid", "reverse"}

NewInstance ==
    [status |-> "none", trigger |-> "none", feedback |-> None, today |-> None,
     digest |-> None, stored |-> FALSE, notified |-> None]

NewLog == [aiCalls |-> 0, inserts |-> 0, response |-> None]

NewRequest ==
    [pc |-> "idle", feedback |-> <<>>, today |-> None, digest |-> None,
     aiCalls |-> 0, airesponse |-> None, logged |-> None, response |-> None]

Init ==
    /\ now = 0
    /\ feedback = <<>>
    /\ daily_digests = <<>>
    /\ wf = [i \in Runs |-> NewInstance]
    /\ req = NewRequest
    /\ faults = 0
    /\ runLog = [i \in Runs |-> NewLog]
    /\ provenance = <<>>
    /\ latest = <<>>
    /\ tieOrder \in TieOrders
    /\ loading = 0

\* ------------------------------------------------------------- the tables
\* Mutant: ORDER BY created_at ASC.
SelectOldest(tbl) ==
    LET n == Len(tbl)
        k == Min(n, FetchLimit)
        picks == {p \in [1..k -> 1..n] :
                    /\ \A a, b \in 1..k : a < b =>
                          /\ p[a] # p[b]
                          /\ tbl[p[a]].created_at <= tbl[p[b]].created_at
                    /\ \A j \in 1..n : (\A a \in 1..k : p[a] # j) =>
                          \A a \in 1..k : tbl[j].created_at >= tbl[p[a]].created_at}
    IN  {[a \in 1..k |-> [content |-> tbl[p[a]].id, source |-> tbl[p[a]].source]] : p \in picks}

\* SELECT content, source FROM feedback ORDER BY created_at DESC LIMIT n:
\* every result the engine may return (rows of equal created_at in any order).
SelectRecent(tbl) ==
    LET n == Len(tbl)
        k == Min(n, FetchLimit)
        picks == {p \in [1..k -> 1..n] :
                    /\ \A a, b \in 1..k : a < b =>
                          /\ p[a] # p[b]
                          /\ tbl[p[a]].created_at >= tbl[p[b]].created_at
                    /\ \A j \in 1..n : (\A a \in 1..k : p[a] # j) =>
                          \A a \in 1..k : tbl[j].created_at <= tbl[p[a]].created_at}
    IN  {[a \in 1..k |-> [content |-> tbl[p[a]].id, source |-> tbl[p[a]].source]] : p \in picks}

\* Mutant: INSERT OR REPLACE keyed by created_at.
InsertDigestReplaces(tbl, summary, count) ==
    LET kept == SelectSeq(tbl, LAMBDA r : r.created_at # now) IN
    Append(kept, [id |-> Len(kept) + 1, summary |-> summary,
                  feedback_count |-> count, created_at |-> now])

\* INSERT INTO daily_digests (summary, feedback_count) VALUES (?, ?):
\* id AUTOINCREMENT, created_at DEFAULT datetime('now').
InsertDigest(tbl, summary, count) ==
    Append(tbl, [id |-> Len(tbl) + 1, summary |-> summary,
                 feedback_count |-> count, created_at |-> now])

\* ---------------------------------------------------------- the environment
Tick ==
    /\ now < MaxClock
    /\ now' = now + 1
    /\ UNCHANGED <<feedback, daily_digests, wf, req, faults, runLog, provenance, latest, tieOrder, loading>>

\* The external producer: INSERT INTO feedback (content, source) VALUES (?, ?).
IngestFeedback ==
    /\ Len(feedback) < MaxFeedback
    /\ \E s \in SourceValues :
          feedback' = Append(feedback, [id |-> Len(feedback) + 1, source |-> s,
                                        created_at |-> now])
    /\ UNCHANGED <<now, daily_digests, wf, req, faults, runLog, provenance, latest, tieOrder, loading>>

\* ------------------------------------------------------------ the workflow
\* Mutant: creating an instance starts every other instance afresh.
CreateResets(trigger) ==
    /\ \E i \in Runs :
          /\ wf[i].status = "none"
          /\ \A j \in Runs : j < i => wf[j].status # "none"
          /\ wf' = [j \in Runs |->
                      IF j = i THEN [NewInstance EXCEPT !.status = "running",
                                                        !.trigger = trigger]
                      ELSE NewInstance]
    /\ UNCHANGED <<now, feedback, daily_digests, req, faults, runLog, provenance, latest, tieOrder, loading>>

\* env.DIGEST_WORKFLOW.create(): a new instance, the next unused identity.
Create(trigger) ==
    /\ \E i \in Runs :
          /\ wf[i].status = "none"
          /\ \A j \in Runs : j < i => wf[j].status # "none"
          /\ wf' = [wf EXCEPT ![i].status = "running", ![i].trigger = trigger]
    /\ UNCHANGED <<now, feedback, daily_digests, req, faults, runLog, provenance, latest, tieOrder, loading>>

Scheduled == Create("cron")

TriggerWorkflow == Create("http")

\* Mutant: the empty window is not tested and the run goes on.
FetchFeedbackNoSkip(i) ==
    /\ wf[i].status = "running"
    /\ ~Has(wf[i].feedback)
    /\ \E rows \in SelectRecent(feedback) :
          wf' = [wf EXCEPT ![i].feedback = Some(rows), ![i].today = Some(DayOf(now))]
    /\ UNCHANGED <<now, feedback, daily_digests, req, faults, runLog, provenance, latest, tieOrder, loading>>

\* step.do('fetch-feedback'), then lines 118-123.
FetchFeedback(i) ==
    /\ wf[i].status = "running"
    /\ ~Has(wf[i].feedback)
    /\ \E rows \in SelectRecent(feedback) :
          wf' = [wf EXCEPT ![i].feedback = Some(rows),
                           ![i].status = IF Len(rows) = 0 THEN "skipped" ELSE "running",
                           ![i].today = IF Len(rows) = 0 THEN None ELSE Some(DayOf(now))]
    /\ UNCHANGED <<now, feedback, daily_digests, req, faults, runLog, provenance, latest, tieOrder, loading>>

\* Mutant: one inference call at a time, in the order of creation.
AnalyzeSerial(i, answers) ==
    /\ wf[i].status = "running"
    /\ Has(wf[i].feedback)
    /\ ~Has(wf[i].digest)
    /\ \A j \in Runs : j < i => ~(wf[j].status = "running" /\ ~Has(wf[j].digest))
    /\ \E resp \in answers :
          /\ wf' = [wf EXCEPT ![i].digest =
                       Some(WorkflowDigest(resp, Val(wf[i].feedback), Val(wf[i].today)))]
          /\ runLog' = [runLog EXCEPT ![i].aiCalls = @ + 1, ![i].response = Some(resp)]
    /\ UNCHANGED <<now, feedback, daily_digests, req, faults, provenance, latest, tieOrder, loading>>

\* step.do('analyze-with-ai'): the AI answers with one of `answers` and the
\* step result is checkpointed.
Analyze(i, answers) ==
    /\ wf[i].status = "running"
    /\ Has(wf[i].feedback)
    /\ ~Has(wf[i].digest)
    /\ \E resp \in answers :
          /\ wf' = [wf EXCEPT ![i].digest =
                       Some(WorkflowDigest(resp, Val(wf[i].feedback), Val(wf[i].today)))]
          /\ runLog' = [runLog EXCEPT ![i].aiCalls = @ + 1, ![i].response = Some(resp)]
    /\ UNCHANGED <<now, feedback, daily_digests, req, faults, provenance, latest, tieOrder, loading>>

AnalyzeWithAI(i) == Analyze(i, SampleResponses)

\* Mutant: the catch of line 175 also covers env.AI.run.
AnalyzeFailsFallsBack(i) ==
    /\ wf[i].status = "running"
    /\ Has(wf[i].feedback)
    /\ ~Has(wf[i].digest)
    /\ faults < MaxFaults
    /\ faults' = faults + 1
    /\ runLog' = [runLog EXCEPT ![i].aiCalls = @ + 1]
    /\ wf' = [wf EXCEPT ![i].digest =
                 Some(WorkflowDigest([text |-> <<>>, obj |-> EmptyObject],
                                     Val(wf[i].feedback), Val(wf[i].today)))]
    /\ UNCHANGED <<now, feedback, daily_digests, req, provenance, latest, tieOrder, loading>>

\* An attempt of the analyze step that fails: env.AI.run throws, or the
\* instance dies before the result is checkpointed. The step is retried.
AnalyzeFails(i) ==
    /\ wf[i].status = "running"
    /\ Has(wf[i].feedback)
    /\ ~Has(wf[i].digest)
    /\ faults < MaxFaults
    /\ faults' = faults + 1
    /\ runLog' = [runLog EXCEPT ![i].aiCalls = @ + 1]
    /\ UNCHANGED <<now, feedback, daily_digests, wf, req, provenance, latest, tieOrder, loading>>

\* The INSERT of the store-digest step, lines 188-190.
StoreInsert(i) ==
    /\ daily_digests' = InsertDigest(daily_digests, Stringify(Val(wf[i].digest)),
                                     Len(Val(wf[i].feedback)))
    /\ provenance' = Append(provenance, [by |-> i, window |-> Val(wf[i].feedback)])
    /\ runLog' = [runLog EXCEPT ![i].inserts = @ + 1]

\* step.do('store-digest'): the INSERT runs and the step is checkpointed.
StoreDigest(i) ==
    /\ wf[i].status = "running"
    /\ Has(wf[i].digest)
    /\ ~wf[i].stored
    /\ StoreInsert(i)
    /\ wf' = [wf EXCEPT ![i].stored = TRUE]
    /\ UNCHANGED <<now, feedback, req, faults, latest, tieOrder, loading>>

\* An attempt of the store-digest step that fails after its INSERT was
\* applied (the reply is lost, or the instance dies before the checkpoint).
StoreDigestFails(i) ==
    /\ wf[i].status = "running"
    /\ Has(wf[i].digest)
    /\ ~wf[i].stored
    /\ faults < MaxFaults
    /\ faults' = faults + 1
    /\ StoreInsert(i)
    /\ UNCHANGED <<now, feedback, wf, req, latest, tieOrder, loading>>

\* Mutant: the notification is built as soon as the digest exists.
NotifySlackEarly(i) ==
    /\ wf[i].status = "running"
    /\ Has(wf[i].digest)
    /\ ~NotifyThrows(Val(wf[i].digest))
    /\ wf' = [wf EXCEPT ![i].notified =
                 Some(SlackPayload(Val(wf[i].digest), Val(wf[i].today),
                                   SourcesOf(Val(wf[i].feedback)), Val(wf[i].feedback))),
                        ![i].status = "completed"]
    /\ UNCHANGED <<now, feedback, daily_digests, req, faults, runLog, provenance, latest, tieOrder, loading>>

\* step.do('notify-slack') and the return of line 209.
NotifySlack(i) ==
    /\ wf[i].status = "running"
    /\ wf[i].stored
    /\ ~NotifyThrows(Val(wf[i].digest))
    /\ wf' = [wf EXCEPT ![i].notified =
                 Some(SlackPayload(Val(wf[i].digest), Val(wf[i].today),
                                   SourcesOf(Val(wf[i].feedback)), Val(wf[i].feedback))),
                        ![i].status = "completed"]
    /\ UNCHANGED <<now, feedback, daily_digests, req, faults, runLog, provenance, latest, tieOrder, loading>>

\* Mutant: the failed notification unwinds the store step.
NotifySlackFailsUnwinds(i) ==
    /\ wf[i].status = "running"
    /\ wf[i].stored
    /\ NotifyThrows(Val(wf[i].digest))
    /\ faults < MaxFaults
    /\ faults' = faults + 1
    /\ daily_digests' = <<>>
    /\ provenance' = <<>>
    /\ wf' = [wf EXCEPT ![i].stored = FALSE]
    /\ UNCHANGED <<now, feedback, req, runLog, latest, tieOrder, loading>>

\* An attempt of the notify-slack step that throws while building the payload.
NotifySlackFails(i) ==
    /\ wf[i].status = "running"
    /\ wf[i].stored
    /\ NotifyThrows(Val(wf[i].digest))
    /\ faults < MaxFaults
    /\ faults' = faults + 1
    /\ UNCHANGED <<now, feedback, daily_digests, wf, req, runLog, provenance, latest, tieOrder, loading>>

\* Mutant: the analysis is made outside a step, so a replay makes it again.
RestartForgets(i) ==
    /\ wf[i].status = "running"
    /\ Has(wf[i].today)
    /\ Val(wf[i].today) # DayOf(now)
    /\ wf' = [wf EXCEPT ![i].today = Some(DayOf(now)), ![i].digest = None]
    /\ UNCHANGED <<now, feedback, daily_digests, req, faults, runLog, provenance, latest, tieOrder, loading>>

\* The instance is restarted: run() is replayed, checkpointed steps return
\* their stored results, and line 123 computes today again.
Restart(i) ==
    /\ wf[i].status = "running"
    /\ Has(wf[i].today)
    /\ Val(wf[i].today) # DayOf(now)
    /\ wf' = [wf EXCEPT ![i].today = Some(DayOf(now))]
    /\ UNCHANGED <<now, feedback, daily_digests, req, faults, runLog, provenance, latest, tieOrder, loading>>

\* ------------------------------------------- GET /run-digest?execute=true
\* Mutant: the handler deletes the feedback it has read.
RunDigestFetchConsumes ==
    /\ req.pc = "idle"
    /\ \E rows \in SelectRecent(feedback) :
          req' = IF Len(rows) = 0
                 THEN [req EXCEPT !.pc = "done",
                                  !.response = Some([status |-> 400,
                                                     body |-> "No feedback to analyze"])]
                 ELSE [req EXCEPT !.pc = "fetched", !.feedback = rows,
                                  !.today = Some(DayOf(now))]
    /\ feedback' = <<>>
    /\ UNCHANGED <<now, daily_digests, wf, faults, runLog, provenance, latest, tieOrder, loading>>

\* Lines 225-238: the SELECT, the empty-input response, sources and today.
RunDigestFetch ==
    /\ req.pc = "idle"
    /\ \E rows \in SelectRecent(feedback) :
          req' = IF Len(rows) = 0
                 THEN [req EXCEPT !.pc = "done",
                                  !.response = Some([status |-> 400,
                                                     body |-> "No feedback to analyze"])]
                 ELSE [req EXCEPT !.pc = "fetched", !.feedback = rows,
                                  !.today = Some(DayOf(now))]
    /\ UNCHANGED <<now, feedback, daily_digests, wf, faults, runLog, provenance, latest, tieOrder, loading>>

\* Lines 269-297: the AI answers; extraction, fallback, normalisation, metadata.
InlineAnalyze(answers) ==
    /\ req.pc = "fetched"
    /\ \E resp \in answers :
          req' = [req EXCEPT !.pc = "analyzed",
                             !.aiCalls = @ + 1,
                             !.airesponse = Some(resp),
                             !.digest = Some(InlineDigest(resp, req.feedback, Val(req.today)))]
    /\ UNCHANGED <<now, feedback, daily_digests, wf, faults, runLog, provenance, latest, tieOrder, loading>>

RunDigestAnalyze == InlineAnalyze(SampleResponses)

\* Line 269: env.AI.run throws; nothing catches it and the request fails.
RunDigestAIFails ==
    /\ req.pc = "fetched"
    /\ req' = [req EXCEPT !.pc = "done", !.aiCalls = @ + 1,
                          !.response = Some([status |-> 500, body |-> "exception"])]
    /\ UNCHANGED <<now, feedback, daily_digests, wf, faults, runLog, provenance, latest, tieOrder, loading>>

\* Lines 299-319: the INSERT, the Slack payload, the response.
RunDigestStore ==
    /\ req.pc = "analyzed"
    /\ daily_digests' = InsertDigest(daily_digests, Stringify(Val(req.digest)),
                                     Len(req.feedback))
    /\ provenance' = Append(provenance, [by |-> 0, window |-> req.feedback])
    /\ req' = IF NotifyThrows(Val(req.digest))
              THEN [req EXCEPT !.pc = "done",
                               !.response = Some([status |-> 500, body |-> "exception"])]
              ELSE [req EXCEPT !.pc = "done",
                               !.logged = Some(SlackPayload(Val(req.digest), Val(req.today),
                                                 SourcesOf(req.feedback), req.feedback)),
                               !.response = Some([status |-> 200, body |-> "digest"])]
    /\ UNCHANGED <<now, feedback, wf, faults, runLog, latest, tieOrder, loading>>

\* ------------------------------------------------------- GET /run-digest
\* Lines 322-373: without ?execute=true the handler answers with the loading
\* page; it is the script of that page, run by a browser, that requests
\* /run-digest?execute=true.  The handler itself reads and writes nothing.
RunDigestPage ==
    /\ loading < MaxPages
    /\ loading' = loading + 1
    /\ UNCHANGED <<now, feedback, daily_digests, wf, req, faults, runLog, provenance, latest, tieOrder>>

\* ------------------------------------------------------ GET /latest-digest
\* SELECT * FROM daily_digests ORDER BY created_at DESC LIMIT 1, .first():
\* a row of the greatest created_at, None (null) when the table is empty.
SelectLatest(tbl) ==
    IF tbl = <<>> THEN None
    ELSE LET newest == {k \in 1..Len(tbl) :
                          \A j \in 1..Len(tbl) : tbl[j].created_at <= tbl[k].created_at}
             first  == CHOOSE a \in newest : \A b \in newest : a <= b
             last   == CHOOSE a \in newest : \A b \in newest : a >= b
         IN  Some(tbl[IF tieOrder = "rowid" THEN first ELSE last])

\* Mutant: the row is used without the test of line 380.
LatestDigestResponseThrows(result) ==
    IF Has(result)
    THEN [status |-> 200, type |-> "text/html", page |-> result]
    ELSE [status |-> 500, type |-> "text/html", page |-> None]

\* Lines 375-400: the 404 page when there is no row, else the page that shows
\* { id, ...JSON.parse(summary), feedback_count, created_at } of the row.
\* Both are htmlWrapper documents sent with Content-Type text/html.
LatestDigestResponse(result) ==
    IF Has(result)
    THEN [status |-> 200, type |-> "text/html", page |-> result]
    ELSE [status |-> 404, type |-> "text/html", page |-> None]

\* Mutant: the row that is shown is taken out of the table.
LatestDigestConsumes ==
    /\ Len(latest) < MaxReads
    /\ latest' = Append(latest, [response |-> LatestDigestResponse(SelectLatest(daily_digests)),
                                 rows |-> Len(daily_digests)])
    /\ daily_digests' = IF daily_digests = <<>> THEN <<>>
                        ELSE SubSeq(daily_digests, 1, Len(daily_digests) - 1)
    /\ provenance' = IF provenance = <<>> THEN <<>>
                     ELSE SubSeq(provenance, 1, Len(provenance) - 1)
    /\ UNCHANGED <<now, feedback, wf, req, faults, runLog, tieOrder, loading>>

LatestDigest ==
    /\ Len(latest) < MaxReads
    /\ latest' = Append(latest, [response |-> LatestDigestResponse(SelectLatest(daily_digests)),
                                 rows |-> Len(daily_digests)])
    /\ UNCHANGED <<now, feedback, daily_digests, wf, req, faults, runLog, provenance, tieOrder, loading>>

\* A behaviour of Spec exercises one run: an instance is created while no
\* request has been made and no instance exists, a request is made while no
\* instance exists.  Overlapping runs are the subject of SpecOverlap.
NoRequest  == req.pc = "idle"
NoInstance == \A i \in Runs : wf[i].status = "none"

Next ==
    \/ Tick
    \/ IngestFeedback
    \/ (NoRequest /\ NoInstance /\ Scheduled)
    \/ (NoRequest /\ NoInstance /\ TriggerWorkflow)
    \/ \E i \in Runs : FetchFeedback(i)
    \/ \E i \in Runs : AnalyzeWithAI(i)
    \/ \E i \in Runs : AnalyzeFails(i)
    \/ \E i \in Runs : StoreDigest(i)
    \/ \E i \in Runs : StoreDigestFails(i)
    \/ \E i \in Runs : NotifySlack(i)
    \/ \E i \in Runs : NotifySlackFails(i)
    \/ \E i \in Runs : Restart(i)
    \/ (NoInstance /\ RunDigestFetch)
    \/ RunDigestAnalyze
    \/ RunDigestAIFails
    \/ RunDigestStore

Spec == Init /\ [][Next]_vars

\* The substrate attempts a step that can be taken, again after an attempt
\* that failed: in SpecRetrying every step of every instance is taken when it
\* stays enabled.  Nothing is assumed of the clock, the producers, the
\* requests or the failures.
SpecRetrying ==
    /\ Spec
    /\ \A i \in Runs :
          /\ WF_vars(FetchFeedback(i))
          /\ WF_vars(AnalyzeWithAI(i))
          /\ WF_vars(StoreDigest(i))
          /\ WF_vars(NotifySlack(i))

\* ------------------------------------------------------ the digest builder
\* SpecBuilder starts after a fetch and lets the AI answer with any response
\* of a bounded set: every token text up to MaxLen, and every object that
\* differs from the requested structure in one property, with every
\* sentiment whose components are absent or integers in 0..MaxRaw.
RECURSIVE TextsOfLen(_)
TextsOfLen(n) ==
    IF n = 0 THEN {<<>>}
    ELSE {Append(t, c) : t \in TextsOfLen(n - 1), c \in Tokens}

Texts == UNION {TextsOfLen(n) : n \in 0..MaxLen}

RawValues == {None} \cup {Some(x) : x \in 0..MaxRaw}

Sentiments ==
    {None} \cup
    {Some([frustrated |-> f, neutral |-> n, positive |-> p, trend |-> "up"]) :
        f \in RawValues, n \in RawValues, p \in RawValues}

Shapes ==
    {SampleObject,
     [SampleObject EXCEPT !.top_themes = None],
     [SampleObject EXCEPT !.top_themes = Some(<<[theme |-> "Performance", mentions |-> 2,
                                                 impact |-> "Critical", confidence |-> "Sure"]>>)],
     [SampleObject EXCEPT !.friction_points = None],
     [SampleObject EXCEPT !.feature_signals = None],
     [SampleObject EXCEPT !.pm_actions = None],
     [SampleObject EXCEPT !.pm_actions = Some(NoActions)],
     [SampleObject EXCEPT !.metadata = Some([date |-> -1, sources |-> <<"model">>,
                                             feedback_count |-> 0])]}

Objects ==
    {[shape EXCEPT !.sentiment = s] : shape \in Shapes, s \in Sentiments}
    \cup {[SampleObject EXCEPT !.sentiment = Some([frustrated |-> Some(1), neutral |-> Some(1),
                                                   positive |-> Some(2), trend |-> "sideways"])]}

Responses ==
    {[text |-> <<"{", "m", "}">>, obj |-> o] : o \in Objects}
    \cup {[text |-> t, obj |-> SampleObject] : t \in Texts}

\* The feedback tables SpecBuilder starts from: 1..FetchLimit rows, with or
\* without a source, created within one tick.
RECURSIVE TablesOfLen(_)
TablesOfLen(n) ==
    IF n = 0 THEN {<<>>}
    ELSE {Append(t, [id |-> n, source |-> s, created_at |-> 0]) :
             t \in TablesOfLen(n - 1), s \in {"github", NULL}}

BuilderTables == UNION {TablesOfLen(n) : n \in 1..FetchLimit}

\* The state after the fetch of a workflow instance (scenario "workflow") or
\* of a request (scenario "request").
BuilderInit ==
    /\ now = 0
    /\ feedback \in BuilderTables
    /\ daily_digests = <<>>
    /\ faults = 0
    /\ runLog = [i \in Runs |-> NewLog]
    /\ provenance = <<>>
    /\ latest = <<>>
    /\ tieOrder = "rowid"
    /\ loading = 0
    /\ \E rows \in SelectRecent(feedback), entry \in {"workflow", "request"} :
          /\ wf = [i \in Runs |->
                     IF entry = "workflow" /\ i = 1
                     THEN [NewInstance EXCEPT !.status = "running", !.trigger = "cron",
                                              !.feedback = Some(rows),
                                              !.today = Some(DayOf(now))]
                     ELSE NewInstance]
          /\ req = IF entry = "request"
                   THEN [NewRequest EXCEPT !.pc = "fetched", !.feedback = rows,
                                           !.today = Some(DayOf(now))]
                   ELSE NewRequest

AnalyzeAny(i) == Analyze(i, Responses)

RunDigestAnalyzeAny == InlineAnalyze(Responses)

BuilderNext ==
    \/ \E i \in Runs : AnalyzeAny(i)
    \/ \E i \in Runs : StoreDigest(i)
    \/ \E i \in Runs : NotifySlack(i)
    \/ RunDigestAnalyzeAny
    \/ RunDigestStore

SpecBuilder == BuilderInit /\ [][BuilderNext]_vars

\* --------------------------------------------------------- overlapping runs
\* SpecOverlap lets two workflow instances and a /run-digest?execute=true
\* request interleave freely over a feedback table that is given at the
\* start; the AI answers with a well-formed object or with prose, and no step
\* attempt fails.
OverlapResponses ==
    {[text |-> <<"w", "{", "m", "}">>, obj |-> SampleObject],
     [text |-> <<"w">>,                obj |-> SampleObject]}

StartFrom(tables) ==
    /\ now = 0
    /\ feedback \in tables
    /\ daily_digests = <<>>
    /\ wf = [i \in Runs |-> NewInstance]
    /\ req = NewRequest
    /\ faults = 0
    /\ runLog = [i \in Runs |-> NewLog]
    /\ provenance = <<>>
    /\ latest = <<>>
    /\ tieOrder \in TieOrders
    /\ loading = 0

OverlapInit == StartFrom({<<>>} \cup BuilderTables)

OverlapAnalyze(i) == Analyze(i, OverlapResponses)

OverlapRunDigestAnalyze == InlineAnalyze(OverlapResponses)

OverlapNext ==
    \/ Scheduled
    \/ TriggerWorkflow
    \/ \E i \in Runs : FetchFeedback(i)
    \/ \E i \in Runs : OverlapAnalyze(i)
    \/ \E i \in Runs : StoreDigest(i)
    \/ \E i \in Runs : NotifySlack(i)
    \/ RunDigestFetch
    \/ OverlapRunDigestAnalyze
    \/ RunDigestStore

SpecOverlap == OverlapInit /\ [][OverlapNext]_vars

\* The substrate runs every instance on its own.  In SpecOverlapHung the
\* steps of every instance but the first are taken when they can be; nothing
\* is assumed of the first instance, whose inference call may never return.
SpecOverlapHung ==
    /\ SpecOverlap
    /\ \A i \in Runs \ {1} :
          /\ WF_vars(FetchFeedback(i))
          /\ WF_vars(OverlapAnalyze(i))
          /\ WF_vars(StoreDigest(i))
          /\ WF_vars(NotifySlack(i))

\* ---------------------------------------------------------------- retrieval
\* SpecRetrieve adds the /latest-digest requests and the clock to the runs of
\* one workflow instance and one /run-digest?execute=true request, which
\* interleave over a feedback table of at most one row; the inference call
\* may fail and an instance may be restarted, and every insert is checkpointed.
RetrieveInit == StartFrom({<<>>} \cup TablesOfLen(1))

RetrieveNext ==
    \/ Tick
    \/ (NoInstance /\ Scheduled)
    \/ (NoInstance /\ TriggerWorkflow)
    \/ \E i \in Runs : FetchFeedback(i)
    \/ \E i \in Runs : OverlapAnalyze(i)
    \/ \E i \in Runs : AnalyzeFails(i)
    \/ \E i \in Runs : StoreDigest(i)
    \/ \E i \in Runs : NotifySlack(i)
    \/ \E i \in Runs : Restart(i)
    \/ RunDigestFetch
    \/ OverlapRunDigestAnalyze
    \/ RunDigestAIFails
    \/ RunDigestStore
    \/ RunDigestPage
    \/ LatestDigest

SpecRetrieve == RetrieveInit /\ [][RetrieveNext]_vars

\* ----------------------------------------------------------- every operation
\* SpecEvery has every operation of the worker and every way a step attempt
\* fails, over a feedback table of at most one row that no producer extends:
\* one workflow instance, one /run-digest?execute=true request and the
\* /latest-digest requests, interleaving, with the sample responses of Spec.
EveryNext ==
    \/ Tick
    \/ (NoInstance /\ Scheduled)
    \/ (NoInstance /\ TriggerWorkflow)
    \/ \E i \in Runs : FetchFeedback(i)
    \/ \E i \in Runs : AnalyzeWithAI(i)
    \/ \E i \in Runs : AnalyzeFails(i)
    \/ \E i \in Runs : StoreDigest(i)
    \/ \E i \in Runs : StoreDigestFails(i)
    \/ \E i \in Runs : NotifySlack(i)
    \/ \E i \in Runs : NotifySlackFails(i)
    \/ \E i \in Runs : Restart(i)
    \/ RunDigestFetch
    \/ RunDigestAnalyze
    \/ RunDigestAIFails
    \/ RunDigestStore
    \/ RunDigestPage
    \/ LatestDigest

SpecEvery == RetrieveInit /\ [][EveryNext]_vars

\* ------------------------------------------------------------- the claims
\* Every analysis made so far: the response received, the digest computed
\* from it and the window it was computed for.
Analyses ==
    {[response |-> Val(runLog[i].response), digest |-> Val(wf[i].digest),
      rows |-> Val(wf[i].feedback)] : i \in {j \in Runs : Has(wf[j].digest)}}
    \cup (IF Has(req.digest)
          THEN {[response |-> Val(req.airesponse), digest |-> Val(req.digest),
                 rows |-> req.feedback]}
          ELSE {})

\* The rows of daily_digests that instance i (0: the request) inserted.
RowsBy(i) == {k \in 1..Len(provenance) : provenance[k].by = i}

\* The raw sentiment of a response that parses, None when it has none.
RawSentiment(resp) == JSONParse(Val(Match(resp.text)), resp.obj).sentiment

\* The response parses and its sentiment components are numbers of total t.
RawTotalIs(resp, P(_)) ==
    /\ ~ParseThrows(resp)
    /\ Has(RawSentiment(resp))
    /\ Has(RawTotal(Val(RawSentiment(resp))))
    /\ P(Val(RawTotal(Val(RawSentiment(resp)))))

Positive(t) == t > 0
Zero(t)     == t = 0

SentimentSum(d) ==
    Val(Val(d.sentiment).frustrated) + Val(Val(d.sentiment).neutral)
        + Val(Val(d.sentiment).positive)

DefaultSentiment ==
    [frustrated |-> Some(0), neutral |-> Some(100), positive |-> Some(0), trend |-> "stable"]

\* C1: a run whose fetch returned no row ends skipped (workflow) or with the
\* 400 'No feedback to analyze' response (request); it makes no inference
\* call, computes no digest and inserts no row into daily_digests.
C1_EmptyFetchSkips ==
    /\ \A i \in Runs :
          (Has(wf[i].feedback) /\ Val(wf[i].feedback) = <<>>) =>
             /\ wf[i].status = "skipped"
             /\ runLog[i].aiCalls = 0
             /\ runLog[i].inserts = 0
             /\ RowsBy(i) = {}
             /\ ~Has(wf[i].digest) /\ ~wf[i].stored /\ ~Has(wf[i].notified)
    /\ (req.pc # "idle" /\ req.feedback = <<>>) =>
          /\ req.pc = "done"
          /\ req.response = Some([status |-> 400, body |-> "No feedback to analyze"])
          /\ req.aiCalls = 0
          /\ RowsBy(0) = {}
          /\ ~Has(req.digest)

\* A skipped instance, with feedback that arrived after its fetch.
C1_Witness ==
    \E i \in Runs : wf[i].status = "skipped" /\ Len(feedback) > 0 /\ daily_digests = <<>>

\* C2: a checkpointed step result never changes and its step is never
\* executed again: after the analyze step has committed, no further inference
\* call is made for the instance, and every row the instance inserts carries
\* the digest that was checkpointed; after the store step has committed, the
\* instance inserts nothing more.
C2_CommittedStepsStay ==
    [][\A i \in Runs :
          /\ Has(wf[i].feedback) => wf'[i].feedback = wf[i].feedback
          /\ Has(wf[i].digest) =>
                /\ wf'[i].digest = wf[i].digest
                /\ runLog'[i].aiCalls = runLog[i].aiCalls
                /\ \A k \in RowsBy(i)' :
                      daily_digests'[k].summary = Stringify(Val(wf[i].digest))
          /\ wf[i].stored =>
                /\ wf'[i].stored
                /\ runLog'[i].inserts = runLog[i].inserts
          /\ Has(wf[i].notified) => wf'[i].notified = wf[i].notified]_vars

\* An instance completed after its store step failed once and after a
\* restart on a later day: the analysis ran once.
C2_Witness ==
    \E i \in Runs :
        /\ wf[i].status = "completed"
        /\ runLog[i].aiCalls = 1
        /\ runLog[i].inserts = 2
        /\ Val(wf[i].today) # Val(Val(wf[i].digest).metadata).date

\* C3: every instance that completed has inserted exactly one row.
C3_ExactlyOneRow ==
    \A i \in Runs : wf[i].status = "completed" => Cardinality(RowsBy(i)) = 1

\* C4: the steps of an instance happen in order: an inference call only
\* after a non-empty fetch, an insert only after the digest is checkpointed,
\* a notification only after the insert is checkpointed; a finished instance
\* is skipped (empty fetch, nothing else done) or completed (all four steps).
C4_StepsInOrder ==
    \A i \in Runs :
        /\ wf[i].status \in {"none", "running", "skipped", "completed"}
        /\ runLog[i].aiCalls > 0 => (Has(wf[i].feedback) /\ Val(wf[i].feedback) # <<>>)
        /\ Has(wf[i].digest) => runLog[i].aiCalls > 0
        /\ runLog[i].inserts > 0 => Has(wf[i].digest)
        /\ wf[i].stored => runLog[i].inserts > 0
        /\ Has(wf[i].notified) => wf[i].stored
        /\ wf[i].status = "skipped" => wf[i].feedback = Some(<<>>)
        /\ wf[i].status = "completed" =>
              /\ Has(wf[i].digest) /\ wf[i].stored /\ Has(wf[i].notified)
              /\ Val(wf[i].feedback) # <<>>
        /\ wf[i].status = "none" => ~Has(wf[i].feedback)

C4_Witness ==
    \E i \in Runs : wf[i].status = "completed" /\ runLog[i].inserts = 1

\* C5: a response with no span, or with a span that is not JSON, gives the
\* fallback payload (theme 'Unable to parse', sentiment 0/100/0/stable,
\* docs_ux 'Review AI response manually'); nothing fails because of it: the
\* store and notify steps of the instance can run, and the request answers 200.
C5_ParseFailureFallsBack ==
    /\ \A a \in Analyses :
          ParseThrows(a.response) =>
             /\ ~NotifyThrows(a.digest)
             /\ Len(Val(a.digest.top_themes)) = 1
             /\ Val(a.digest.top_themes)[1].theme = "Unable to parse"
             /\ Val(a.digest.sentiment) = DefaultSentiment
             /\ Val(Val(a.digest.pm_actions).docs_ux) = <<"Review AI response manually">>
    /\ \A i \in Runs :
          (Has(wf[i].digest) /\ ParseThrows(Val(runLog[i].response))) =>
             \/ wf[i].status = "completed"
             \/ wf[i].status = "running" /\ ENABLED (StoreDigest(i) \/ NotifySlack(i))
    /\ (Has(req.digest) /\ ParseThrows(Val(req.airesponse))) =>
          \/ req.pc = "analyzed" /\ ENABLED RunDigestStore
          \/ req.pc = "done" /\ Val(req.response).status = 200

\* An instance completed, and stored the fallback, after a response with two
\* objects in it.
C5_Witness ==
    \E i \in Runs :
        /\ wf[i].status = "completed"
        /\ Val(runLog[i].response).text = <<"{", "}", "{", "}">>
        /\ \E k \in RowsBy(i) :
              Val(Property(daily_digests[k].summary, "top_themes"))[1].theme = "Unable to parse"

\* The Digest Payload of the data model: every required property present,
\* impact, confidence and trend in their value sets, the sentiment
\* percentages integers in 0..100.
ValidPayload(d) ==
    /\ Has(d.top_themes) /\ Has(d.friction_points) /\ Has(d.sentiment)
    /\ Has(d.feature_signals) /\ Has(d.pm_actions) /\ Has(d.metadata)
    /\ \A k \in 1..Len(Val(d.top_themes)) :
          /\ Val(d.top_themes)[k].impact \in Impacts
          /\ Val(d.top_themes)[k].confidence \in Impacts
    /\ Val(d.sentiment).trend \in Trends
    /\ \A c \in {Val(d.sentiment).frustrated, Val(d.sentiment).neutral,
                 Val(d.sentiment).positive} :
          Has(c) /\ Val(c) \in 0..100

\* C6: every digest the analysis produces is a valid Digest Payload.
C6_AlwaysValidPayload ==
    \A a \in Analyses : ValidPayload(a.digest)

\* C7: a digest parsed from a response whose raw sentiment components have a
\* positive total has percentages that sum to exactly 100.
C7_SumIsHundred ==
    \A a \in Analyses :
        RawTotalIs(a.response, Positive) => SentimentSum(a.digest) = 100

\* C7, with the rounding drift: a digest parsed from a response whose raw
\* sentiment components are numbers of positive total has percentages that
\* sum to 99, 100 or 101, each component being rounded on its own.
C7_SumWithinOne ==
    \A a \in Analyses :
        RawTotalIs(a.response, Positive) => SentimentSum(a.digest) \in 99..101

\* Raw 1, 1, 1 stored as 33, 33, 33.
C7_Witness ==
    \E a \in Analyses :
        /\ RawTotalIs(a.response, Positive)
        /\ SentimentSum(a.digest) = 99

\* C8: parsed with a positive raw total, the percentages sum to 100 give or
\* take 2, in the workflow and in the request handler.
C8_SumWithinTwo ==
    /\ \A i \in Runs :
          (Has(wf[i].digest) /\ RawTotalIs(Val(runLog[i].response), Positive)) =>
             SentimentSum(Val(wf[i].digest)) \in 98..102
    /\ (Has(req.digest) /\ RawTotalIs(Val(req.airesponse), Positive)) =>
          SentimentSum(Val(req.digest)) \in 98..102

\* The request handler normalised a raw sentiment such as 3, 3, 2 to 38, 38, 25.
C8_Witness ==
    /\ Has(req.digest)
    /\ RawTotalIs(Val(req.airesponse), Positive)
    /\ SentimentSum(Val(req.digest)) = 101

\* C9: an unparsable response, or a parsed sentiment of total zero, gives the
\* default sentiment 0/100/0/stable.
C9_DefaultSentiment ==
    \A a \in Analyses :
        (ParseThrows(a.response) \/ RawTotalIs(a.response, Zero)) =>
           a.digest.sentiment = Some(DefaultSentiment)

\* The distinct truthy sources of a window, as a set.
TruthySources(rows) == {rows[k].source : k \in 1..Len(rows)} \ {NULL, ""}

MetadataMatches(m, rows) ==
    /\ RangeOf(m.sources) = TruthySources(rows)
    /\ Len(m.sources) = Cardinality(TruthySources(rows))
    /\ m.feedback_count = Len(rows)

\* C10: the metadata of a digest and the feedback_count of the row stored for
\* it describe the window the run itself fetched: sources is the set of its
\* distinct non-empty sources, both counts are its length, whatever the
\* feedback table holds by then.
C10_MetadataOfOwnWindow ==
    /\ \A a \in Analyses : MetadataMatches(Val(a.digest.metadata), a.rows)
    /\ \A k \in 1..Len(daily_digests) :
          LET fetched == IF provenance[k].by = 0 THEN req.feedback
                         ELSE Val(wf[provenance[k].by].feedback)
          IN  /\ provenance[k].window = fetched
              /\ daily_digests[k].feedback_count = Len(fetched)
              /\ MetadataMatches(Val(Property(daily_digests[k].summary, "metadata")), fetched)

\* A row stored for a window of two rows of the same source, the table grown
\* since by a newer row of another source.
C10_Witness ==
    \E k \in 1..Len(daily_digests) :
        /\ Len(provenance[k].window) = 2
        /\ \A j \in 1..2 : provenance[k].window[j].source = "github"
        /\ Val(Property(daily_digests[k].summary, "metadata")).sources = <<"github">>
        /\ daily_digests[k].feedback_count = 2
        /\ Len(feedback) = 3
        /\ feedback[3].source = "discord"
        /\ feedback[3].created_at > feedback[2].created_at

\* The row a run stored: one of its rows carries its digest and its count.
HasStoredRow(i, digest, rows) ==
    \E k \in RowsBy(i) :
        /\ daily_digests[k].summary = Stringify(digest)
        /\ daily_digests[k].feedback_count = Len(rows)

\* C11: a failure of the notification leaves the row of the same run's store
\* in daily_digests: an instance whose store step committed, and a request
\* that got past its INSERT, always has its row, and the step in which a
\* notify attempt fails changes neither daily_digests nor the store marker.
C11_NotifyFailureKeepsRow ==
    /\ [](/\ \A i \in Runs :
              wf[i].stored => HasStoredRow(i, Val(wf[i].digest), Val(wf[i].feedback))
          /\ (req.pc = "done" /\ Has(req.digest)) =>
                HasStoredRow(0, Val(req.digest), req.feedback))
    /\ [][\A i \in Runs :
            (wf[i].stored /\ faults' > faults) =>
               /\ daily_digests' = daily_digests
               /\ wf'[i].stored]_vars

\* The notify step of an instance failed (the only fault: one inference call,
\* one insert) and its row is in the table.
C11_Witness ==
    \E i \in Runs :
        /\ wf[i].stored /\ wf[i].status = "running"
        /\ NotifyThrows(Val(wf[i].digest))
        /\ faults = 1 /\ runLog[i].aiCalls = 1 /\ runLog[i].inserts = 1
        /\ Len(daily_digests) = 1

\* C12: building the notification never fails: the notify step of an instance
\* whose store step committed can run to its end, and a request that has
\* stored its digest answers with the digest, whatever digest the analysis
\* produced.
C12_NotifyNeverPropagates ==
    /\ \A i \in Runs :
          (wf[i].status = "running" /\ wf[i].stored) => ENABLED NotifySlack(i)
    /\ (req.pc = "done" /\ Has(req.digest)) => Val(req.response).status = 200

\* C13: a finished /run-digest?execute=true request has answered with the
\* digest (200) or with the empty-input error (400), nothing else.
C13_TwoResponsesOnly ==
    req.pc = "done" =>
       \/ /\ Val(req.response) = [status |-> 200, body |-> "digest"]
          /\ Has(req.digest)
       \/ /\ Val(req.response) = [status |-> 400, body |-> "No feedback to analyze"]
          /\ req.feedback = <<>>

\* C14: every /latest-digest response shows the row that was inserted last
\* (the greatest id) at the time of the request.
C14_LatestIsLastInserted ==
    \A k \in 1..Len(latest) :
        latest[k].rows > 0 =>
           /\ latest[k].response.status = 200
           /\ Val(latest[k].response.page).id = latest[k].rows

C16_EmptyHistoryNotFound ==
    /\ [](\A k \in 1..Len(latest) :
             latest[k].rows = 0 =>
                latest[k].response =
                   [status |-> 404, type |-> "text/html", page |-> None])
    /\ [][(latest' # latest /\ daily_digests = <<>>) =>
             (daily_digests' = <<>> /\ feedback' = feedback)]_vars

\* A 404 given while a run had fetched feedback but not yet stored.
C16_Witness ==
    /\ Len(latest) > 0
    /\ latest[1].rows = 0
    /\ latest[1].response.status = 404
    /\ Has(req.digest)
    /\ daily_digests = <<>>

\* The state of an instance apart from how it was triggered.
Progress(i) == [wf[i] EXCEPT !.trigger = "none"]

\* C17: a step that creates an instance creates exactly one, fresh, under an
\* unused identity, and touches nothing else; a step changes the local state
\* of at most one run; and two instances in the same local state, whatever
\* their triggers, have the same steps enabled.
C17_IndependentInstances ==
    /\ [][\A i, j \in Runs :
            /\ (wf[i].status = "none" /\ wf'[i].status # "none") =>
                  /\ wf'[i].trigger \in {"cron", "http"}
                  /\ wf'[i] = [NewInstance EXCEPT !.status = "running",
                                                  !.trigger = wf'[i].trigger]
                  /\ \A k \in Runs \ {i} : wf'[k] = wf[k]
                  /\ req' = req
                  /\ feedback' = feedback
                  /\ daily_digests' = daily_digests
            /\ (i # j) => (wf'[i] = wf[i] \/ wf'[j] = wf[j])
            /\ (req' # req) => (wf' = wf)]_vars
    /\ [](\A i, j \in Runs :
             (Progress(i) = Progress(j)) =>
                /\ ENABLED FetchFeedback(i) <=> ENABLED FetchFeedback(j)
                /\ ENABLED OverlapAnalyze(i) <=> ENABLED OverlapAnalyze(j)
                /\ ENABLED StoreDigest(i) <=> ENABLED StoreDigest(j)
                /\ ENABLED NotifySlack(i) <=> ENABLED NotifySlack(j))

\* A timer-triggered and a request-triggered instance, one completed with the
\* fallback and one still waiting for its analysis.
C17_Witness ==
    \E i, j \in Runs :
        /\ wf[i].trigger = "cron" /\ wf[j].trigger = "http"
        /\ wf[i].status = "completed"
        /\ ParseThrows(Val(runLog[i].response))
        /\ wf[j].status = "running" /\ Has(wf[j].feedback) /\ ~Has(wf[j].digest)

\* C18: overlapping runs are neither deduplicated nor locked: a run that has
\* its digest can always insert, whatever the others did; daily_digests only
\* grows at its end; and every run that stored has its own row, with its own
\* digest, in the table.
C18_OverlapKeepsBothRows ==
    /\ [](/\ \A i \in Runs :
              /\ (wf[i].status = "running" /\ Has(wf[i].digest) /\ ~wf[i].stored) =>
                    ENABLED StoreDigest(i)
              /\ wf[i].stored =>
                    \E k \in RowsBy(i) \cap (1..Len(daily_digests)) :
                        daily_digests[k].summary = Stringify(Val(wf[i].digest))
          /\ req.pc = "analyzed" => ENABLED RunDigestStore
          /\ req.pc = "done" /\ Has(req.digest) =>
                \E k \in RowsBy(0) \cap (1..Len(daily_digests)) :
                    daily_digests[k].summary = Stringify(Val(req.digest)))
    /\ [][/\ Len(daily_digests') >= Len(daily_digests)
           /\ SubSeq(daily_digests', 1, Len(daily_digests)) = daily_digests]_vars

\* A timer-triggered and a request-triggered instance, both in flight, read
\* the same window and both stored: two rows.
C18_Witness ==
    /\ wf[1].status = "running" /\ wf[1].stored /\ wf[1].trigger = "cron"
    /\ wf[2].status = "running" /\ wf[2].stored /\ wf[2].trigger = "http"
    /\ wf[1].feedback = wf[2].feedback
    /\ Len(daily_digests) = 2
    /\ RowsBy(1) = {2} /\ RowsBy(2) = {1}

\* The instance is waiting for its inference call.
AwaitsInference(i) ==
    wf[i].status = "running" /\ Has(wf[i].feedback) /\ ~Has(wf[i].digest)

\* C19: while the first instance waits for an inference call that never
\* returns, every step of another instance is enabled by that instance's own
\* progress alone, the request can go on, and the other instance, once
\* created, ends completed or skipped.
C19_HungRunBlocksOnlyItself ==
    /\ [](AwaitsInference(1) =>
            /\ \A j \in Runs \ {1} :
                  wf[j].status = "running" =>
                     /\ ~Has(wf[j].feedback) => ENABLED FetchFeedback(j)
                     /\ AwaitsInference(j) => ENABLED OverlapAnalyze(j)
                     /\ (Has(wf[j].digest) /\ ~wf[j].stored) => ENABLED StoreDigest(j)
                     /\ wf[j].stored => ENABLED NotifySlack(j)
            /\ req.pc = "fetched" => ENABLED OverlapRunDigestAnalyze
            /\ req.pc = "analyzed" => ENABLED RunDigestStore)
    /\ \A j \in Runs \ {1} :
          (wf[j].status = "running") ~> (wf[j].status \in {"completed", "skipped"})

\* The second instance completed while the first, created before it, still
\* waits for its inference call.
C19_Witness ==
    /\ AwaitsInference(1)
    /\ runLog[1].aiCalls = 0
    /\ wf[2].status = "completed"
    /\ RowsBy(2) # {}

RunDigestHandled == loading + (IF req.pc = "done" THEN 1 ELSE 0)

RunDigestPipelines ==
    IF /\ req.pc = "done"
       /\ req.feedback # <<>>
       /\ req.aiCalls > 0
       /\ RowsBy(0) # {}
       /\ Has(req.logged)
    THEN 1 ELSE 0

\* C21, as claimed: handling a GET /run-digest request fetches the feedback,
\* analyzes it with Workers AI, stores a digest row in daily_digests and logs
\* the Slack payload: when there is feedback to analyze, every request
\* handled has run the whole pipeline.
C21_RunDigestRunsPipeline ==
    feedback # <<>> => RunDigestHandled = RunDigestPipelines

\* C22, as claimed: when at least one digest exists, GET /latest-digest
\* answers with a JSON body that carries the fields of a stored digest.
C22_LatestDigestIsJSON ==
    \A k \in 1..Len(latest) :
        latest[k].rows > 0 =>
           /\ latest[k].response.status = 200
           /\ Has(latest[k].response.page)
           /\ latest[k].response.type = "application/json"

\* Window w, read from table tbl, holds at most FetchLimit rows of tbl, no
\* row twice, newest first, leaves a row out only when it is full, and no
\* row left out is newer than a row of the window.
MostRecentWindow(w, tbl) ==
    LET at(a)   == tbl[w[a].content].created_at
        left    == {j \in 1..Len(tbl) : \A a \in 1..Len(w) : w[a].content # j}
    IN  /\ Len(w) <= FetchLimit
        /\ \A a \in 1..Len(w) :
               /\ w[a].content \in 1..Len(tbl)
               /\ w[a].source = tbl[w[a].content].source
        /\ \A a, b \in 1..Len(w) :
               a < b => (w[a].content # w[b].content /\ at(a) >= at(b))
        /\ left # {} => Len(w) = FetchLimit
        /\ \A j \in left : \A a \in 1..Len(w) : tbl[j].created_at <= at(a)

C24_InferenceFailureFailsStep ==
    /\ [](\A i \in Runs :
             ~Has(wf[i].digest) =>
                (RowsBy(i) = {} /\ ~wf[i].stored /\ ~Has(wf[i].notified)))
    /\ [][\A i \in Runs :
             (runLog'[i].aiCalls > runLog[i].aiCalls /\ faults' > faults) =>
                /\ wf'[i].status = "running"
                /\ Has(wf'[i].feedback)
                /\ ~Has(wf'[i].digest)
                /\ daily_digests' = daily_digests]_vars

\* A run whose first inference call failed and whose second one answered,
\* and which then stored the digest of that answer.
C24_Witness ==
    \E i \in Runs :
        /\ runLog[i].aiCalls = 2
        /\ faults = 1
        /\ Has(wf[i].digest)
        /\ ~ParseThrows(Val(runLog[i].response))
        /\ RowsBy(i) # {}

\* r is an integer nearest to 100 * x / t.
NearestPercent(r, x, t) ==
    LET d == 100 * x - r * t IN 2 * (IF d < 0 THEN 0 - d ELSE d) <= t

\* C25: parsed with raw sentiment components of positive total t, each stored
\* component is its share 100 * x / t rounded to the nearest integer, and the
\* trend and every property but sentiment and metadata are those of the
\* parsed object.
C25_EachShareRounded ==
    \A a \in Analyses :
        RawTotalIs(a.response, Positive) =>
           LET parsed == JSONParse(Val(Match(a.response.text)), a.response.obj)
               raw    == Val(parsed.sentiment)
               t      == Val(raw.frustrated) + Val(raw.neutral) + Val(raw.positive)
               s      == Val(a.digest.sentiment)
           IN  /\ Has(a.digest.sentiment)
               /\ Has(s.frustrated) /\ Has(s.neutral) /\ Has(s.positive)
               /\ NearestPercent(Val(s.frustrated), Val(raw.frustrated), t)
               /\ NearestPercent(Val(s.neutral), Val(raw.neutral), t)
               /\ NearestPercent(Val(s.positive), Val(raw.positive), t)
               /\ s.trend = raw.trend
               /\ a.digest.top_themes = parsed.top_themes
               /\ a.digest.friction_points = parsed.friction_points
               /\ a.digest.feature_signals = parsed.feature_signals
               /\ a.digest.pm_actions = parsed.pm_actions
               /\ a.digest.raw_response = parsed.raw_response

\* Raw 1, 1, 2 with a trend outside the prompt's values stored as 25, 25, 50
\* with that trend.
C25_Witness ==
    \E a \in Analyses :
        /\ RawTotalIs(a.response, Positive)
        /\ RawSentiment(a.response) =
              Some([frustrated |-> Some(1), neutral |-> Some(1),
                    positive |-> Some(2), trend |-> "sideways"])
        /\ a.digest.sentiment =
              Some([frustrated |-> Some(25), neutral |-> Some(25),
                    positive |-> Some(50), trend |-> "sideways"])

\* C26: the metadata of every digest produced is the builder's: the date of
\* the run, the distinct non-empty sources of the fetched rows and their
\* number, also when the parsed response has a metadata property of its own.
C26_MetadataIsTheBuilders ==
    \A a \in Analyses :
        /\ Has(a.digest.metadata)
        /\ Val(a.digest.metadata).date = DayOf(now)
        /\ MetadataMatches(Val(a.digest.metadata), a.rows)

\* A response that parses and carries a metadata of its own, which the
\* request handler has replaced.
C26_Witness ==
    /\ Has(req.digest)
    /\ ~ParseThrows(Val(req.airesponse))
    /\ Has(JSONParse(Val(Match(Val(req.airesponse).text)), Val(req.airesponse).obj).metadata)
    /\ Val(req.airesponse).obj.metadata # Val(req.digest).metadata
    /\ Val(Val(req.digest).metadata).feedback_count = Len(req.feedback)

\* The text is the object span with text that has no brace before and
\* after it.
WrappedObject(text, span) ==
    \E a, b \in 1..Len(text) :
        /\ SubSeq(text, a, b) = span
        /\ \A k \in 1..Len(text) : (k < a \/ k > b) => text[k] \notin {"{", "}"}

\* An object followed by a second object.
TwoObjects(text) ==
    \E a, b, c, d \in 1..Len(text) :
        /\ a < b /\ b < c /\ c < d
        /\ text[a] = "{" /\ text[b] = "}" /\ text[c] = "{" /\ text[d] = "}"

\* An object followed by a "}" of its own.
StrayClose(text) ==
    \E a, b, c \in 1..Len(text) :
        /\ a < b /\ b < c
        /\ text[a] = "{" /\ text[b] = "}" /\ text[c] = "}"

IsFallback(d) ==
    /\ d.top_themes = FallbackFields.top_themes
    /\ d.pm_actions = FallbackFields.pm_actions
    /\ d.sentiment = FallbackFields.sentiment

\* C27: a response whose only braces are those of one JSON object, with any
\* text before and after it, gives the digest parsed from that object; a
\* response with two objects, or with a "}" after the object, gives the
\* fallback payload.
C27_GreedyExtraction ==
    \A a \in Analyses :
        /\ WrappedObject(a.response.text, <<"{", "m", "}">>) =>
              /\ a.digest.top_themes = a.response.obj.top_themes
              /\ a.digest.pm_actions = a.response.obj.pm_actions
              /\ ~IsFallback(a.digest)
        /\ WrappedObject(a.response.text, <<"{", "}">>) =>
              /\ a.digest.top_themes = None
              /\ a.digest.pm_actions = None
        /\ (TwoObjects(a.response.text) \/ StrayClose(a.response.text)) =>
              IsFallback(a.digest)

\* Two empty objects one after the other, answered with the fallback payload.
C27_Witness ==
    \E a \in Analyses :
        /\ a.response.text = <<"{", "}", "{", "}">>
        /\ IsFallback(a.digest)

\* C28, as claimed: for the window, the inference response and the date of
\* any analysis made, the workflow and the /run-digest?execute=true handler
\* store the same summary and the same feedback_count.
C28_SameRowOnBothPaths ==
    \A a \in Analyses :
        LET today == Val(a.digest.metadata).date IN
        /\ Has(a.digest.metadata)
        /\ InsertDigest(<<>>, Stringify(WorkflowDigest(a.response, a.rows, today)),
                        Len(a.rows))
             = InsertDigest(<<>>, Stringify(InlineDigest(a.response, a.rows, today)),
                            Len(a.rows))

\* C29, as claimed: the date shown in the notification of a workflow run is
\* the metadata.date of the digest that run stored, also when the run was
\* interrupted and resumed between its analyze step and its notify step.
C29_NotificationDateIsStoredDate ==
    \A i \in Runs :
        Has(wf[i].notified) =>
           /\ Has(wf[i].digest)
           /\ \A k \in RowsBy(i) :
                 Val(wf[i].notified).date =
                    Val(Property(daily_digests[k].summary, "metadata")).date

\* C30, as claimed: under a substrate that keeps attempting the steps, a
\* workflow run that fetched at least one row and whose inference call has
\* returned a response, whatever it contains, ends completed.
C30_AnalysedRunCompletes ==
    \A i \in Runs :
        (wf[i].status = "running" /\ Has(runLog[i].response))
           ~> (wf[i].status = "completed")

====
